---- MODULE Spec2Model ----
(***************************************************************************)
(* A model of the real-time routing core of CS-Agent:                      *)
(*   - ConnectionManager (backend/websocket_manager.py): the connection    *)
(*     registry, its typing sets and its broadcast loop;                   *)
(*   - the websocket endpoint of backend/server.py that drives it;         *)
(*   - MultiAgentCoordinator.generate_response (backend/ai_service.py):    *)
(*     agent resolution and the chat-session map.                          *)
(* The program runs on one asyncio event loop: code between two awaits is  *)
(* one atomic step, and every await of I/O is a point where another task   *)
(* may run.  Each action below is one such step.                           *)
(***************************************************************************)
EXTENDS Integers, Sequences, FiniteSets, TLC

\* ---------------------------------------------------------------- bounds
\* Websocket objects (one per invocation of the endpoint), numbered in the
\* order in which the endpoint tasks reach connect_to_conversation.
NChannels == 3
\* The websockets that arrive in the specification of the send_message
\* requests.
NRequestChannels == 1
\* The send_message requests in the specification where they do not overlap.
NSoloRequests == 1
\* The websockets that arrive in the specification with typing frames, where
\* every endpoint task may have a broadcast of its own in flight.
NTypingChannels == 2
\* generate_response calls that may be in flight at the same time.
NTurns == 2
\* The largest current_load, and the smaller of the two capacities, of the
\* agent documents in the specification of the router.
MaxLoad == 5
LowCapacity == 2

Channels == 1..NChannels
Turns == 1..NTurns
\* The send_message requests (server.py) that may be in flight at the same
\* time: request r makes the generate_response call r.
Requests == Turns
Convs == {"c1", "c2"}
Roles == {"agent", "customer"}
\* The participants that connect: a (role, id) pair each.
Participants == {<<"agent", "a1">>, <<"customer", "k1">>}
Users == {p[2] : p \in Participants}
\* Python's None, as the value of exclude_websocket.
None == 0
\* The tasks that call broadcast_to_conversation: the endpoint task of each
\* websocket (from handle_message) and the request path (index None).  A task
\* is sequential, so it has at most one broadcast call in flight.
\* A send_message request is a task of its own: request r broadcasts in the
\* slot ReqSlot(r).
ReqSlot(r) == NChannels + r
Broadcasts == {None} \cup Channels \cup {ReqSlot(r) : r \in Requests}

VARIABLES
  active_connections,   \* conversation_id -> list of websockets
  agent_connections,    \* agent id -> websocket
  customer_connections, \* customer id -> websocket
  typing_indicators,    \* conversation_id -> set of ids typing
  ws,                   \* per websocket: the endpoint task's position and arguments
  bc,                   \* per broadcast call: its position, iterator and locals
  bh,                   \* per broadcast call: what it has done so far (history)
  db_conversations,     \* storage: conversation id -> its document
  db_agents,            \* storage: agent id -> its document
  active_chats,         \* chat_key -> LlmChat object
  sessions,             \* every LlmChat object made so far (history)
  turn,                 \* per generate_response call: its position and locals
  db_messages,          \* storage: conversation id -> its messages, in order
  req,                  \* per send_message request: its position and locals
  ds                    \* the send_to_agent call: its position and locals

regVars == <<active_connections, agent_connections, customer_connections,
             typing_indicators, ws, bc, bh>>
turnVars == <<db_conversations, db_agents, active_chats, sessions, turn>>
apiVars == <<db_messages, req, ds>>
vars == <<active_connections, agent_connections, customer_connections,
          typing_indicators, ws, bc, bh,
          db_conversations, db_agents, active_chats, sessions, turn,
          db_messages, req, ds>>

\* ------------------------------------------------------- dict/list helpers
\* d[k] = v on a Python dict.
Put(d, k, v) == [x \in DOMAIN d \cup {k} |-> IF x = k THEN v ELSE d[x]]

\* del d[k] on a Python dict.
Del(d, k) == [x \in DOMAIN d \ {k} |-> d[x]]

\* x in lst
InList(x, lst) == \E i \in 1..Len(lst) : lst[i] = x

\* The elements of a list, as a set.
Elems(lst) == {lst[i] : i \in 1..Len(lst)}

\* Index of the first occurrence of x in lst (x is in lst).
FirstIndex(x, lst) == CHOOSE i \in 1..Len(lst) :
                        lst[i] = x /\ \A j \in 1..(i - 1) : lst[j] # x

\* lst.remove(x): drops the first occurrence of x (x is in lst).
ListRemove(lst, x) ==
  LET k == FirstIndex(x, lst)
  IN [i \in 1..(Len(lst) - 1) |-> IF i < k THEN lst[i] ELSE lst[i + 1]]

\* self.active_connections.get(c, []): the live members of a conversation.
Members(ac, c) == IF c \in DOMAIN ac THEN ac[c] ELSE <<>>

\* ------------------------------------------------ connect_to_conversation
\* Lines 29-32: create the group if needed, then append the websocket.
ConnectActive(ac, c, h) ==
  IF c \in DOMAIN ac THEN [ac EXCEPT ![c] = Append(@, h)]
  ELSE Put(ac, c, <<h>>)

\* Lines 34-38, as a bug would have them: an entry that exists is kept.
ConnectDirectKeepFirst(tbl, tblRole, r, u, h) ==
  IF r = tblRole /\ u \notin DOMAIN tbl THEN Put(tbl, u, h) ELSE tbl

\* Lines 34-38: the role's direct-address table takes the new websocket.
ConnectDirect(tbl, tblRole, r, u, h) ==
  IF r = tblRole THEN Put(tbl, u, h) ELSE tbl

\* ------------------------------------------- disconnect_from_conversation
\* Lines 58-64, as a bug would have them: the empty-group check runs before
\* the removal.
DisconnectActiveCleanupFirst(ac, c, h) ==
  IF c \in DOMAIN ac
  THEN IF ac[c] = <<>> THEN Del(ac, c)
       ELSE IF InList(h, ac[c]) THEN [ac EXCEPT ![c] = ListRemove(@, h)]
            ELSE ac
  ELSE ac

\* Lines 58-64: remove the websocket from the group; drop an empty group.
DisconnectActive(ac, c, h) ==
  IF c \in DOMAIN ac
  THEN LET lst == IF InList(h, ac[c]) THEN ListRemove(ac[c], h) ELSE ac[c]
       IN IF lst = <<>> THEN Del(ac, c) ELSE [ac EXCEPT ![c] = lst]
  ELSE ac

\* Lines 67-71, as a bug would have them: the entry is deleted whichever
\* websocket it points at.
DisconnectDirectUnconditional(tbl, u, h) ==
  IF u \in DOMAIN tbl THEN Del(tbl, u) ELSE tbl

\* Lines 67-71: delete the direct entry only if it still points at h.
DisconnectDirect(tbl, u, h) ==
  IF u \in DOMAIN tbl /\ tbl[u] = h THEN Del(tbl, u) ELSE tbl

\* Lines 74-77: discard the id from the typing set; drop an empty set.
DisconnectTyping(ty, c, u) ==
  IF c \in DOMAIN ty
  THEN LET s == ty[c] \ {u}
       IN IF s = {} THEN Del(ty, c) ELSE [ty EXCEPT ![c] = s]
  ELSE ty

\* The four tables of the registry, as one value.
Reg == [ac |-> active_connections, ag |-> agent_connections,
        cu |-> customer_connections, ty |-> typing_indicators]

\* Lines 54-82: disconnect_from_conversation(websocket h, conversation c,
\* user u) on the registry R.  Nothing in it can raise: every removal is
\* guarded by a membership test (and the body sits in a try/except).
DisconnectReg(R, c, u, h) ==
  [ac |-> DisconnectActive(R.ac, c, h),
   ag |-> DisconnectDirect(R.ag, u, h),
   cu |-> DisconnectDirect(R.cu, u, h),
   ty |-> DisconnectTyping(R.ty, c, u)]

\* ------------------------------------------------- send_typing_indicator
\* Lines 126-132: create the set if needed, then add or discard the id.
SetTyping(ty, c, u, isTyping) ==
  LET s == IF c \in DOMAIN ty THEN ty[c] ELSE {}
  IN Put(ty, c, IF isTyping THEN s \cup {u} ELSE s \ {u})

\* Lines 134-142, as a bug would have them: typing_agents is read from the
\* table as it was before the update.
TypingPayloadStale(ty, c, isTyping) ==
  <<isTyping, IF c \in DOMAIN typing_indicators THEN typing_indicators[c] ELSE {}>>

\* Lines 134-142: is_typing and typing_agents of the typing_indicator
\* payload, the latter a copy of the conversation's set in the table ty.
TypingPayload(ty, c, isTyping) == <<isTyping, ty[c]>>

\* ------------------------------------------------ broadcast_to_conversation
\* A broadcast call that is not running.
\* data is what the payload says of the typing set (a typing_indicator
\* payload only).
IdleBc == [pc |-> "idle", conv |-> "-", excl |-> None, idx |-> 0, cur |-> None,
           failed |-> <<>>, detached |-> FALSE, data |-> <<>>]

\* The history of a broadcast call that is not running.
IdleBh == [snap |-> <<>>, mutated |-> FALSE, delivered |-> <<>>, late |-> FALSE]

\* The list object the loop of line 96 iterates: the group's list as it is
\* now, or the emptied list of a group entry that was deleted meanwhile.
IterList(ac, b) == IF b.detached THEN <<>> ELSE ac[b.conv]

\* Lines 96-97, as a bug would have them: the excluded websocket is not
\* skipped.
NextIdxNoExclude(lst, idx, excl) ==
  IF idx + 1 <= Len(lst) THEN idx + 1 ELSE 0

\* Lines 96-97: the list iterator's next position holding a websocket other
\* than exclude_websocket; 0 when the iterator is exhausted.
NextIdx(lst, idx, excl) ==
  LET cand == {j \in (idx + 1)..Len(lst) : lst[j] # excl}
  IN IF cand = {} THEN 0 ELSE CHOOSE j \in cand : \A k \in cand : j <= k

\* Lines 105-106: remove each failed websocket from the group's list, looked
\* up again in the dict; a missing group (KeyError) or a websocket no longer
\* in the list (ValueError) raises out of the loop.
RECURSIVE CleanupFailed(_, _, _)
CleanupFailed(ac, c, failed) ==
  IF failed = <<>> THEN [ac |-> ac, raised |-> FALSE, removed |-> {}]
  ELSE LET w == Head(failed)
       IN IF c \notin DOMAIN ac \/ ~InList(w, ac[c])
          THEN [ac |-> ac, raised |-> TRUE, removed |-> {}]
          ELSE LET r == CleanupFailed([ac EXCEPT ![c] = ListRemove(@, w)], c,
                                      Tail(failed))
               IN [r EXCEPT !.removed = @ \cup {w}]

\* Whether broadcast call o is in its loop over conversation c's current list.
Iterating(o, c) == bc[o].pc = "sending" /\ bc[o].conv = c /\ ~bc[o].detached

\* No broadcast call is at its return: the return to the caller takes no
\* await, so no other task runs between the clean-up loop and the return.
Running == \A o \in Broadcasts : bc[o].pc \notin {"done", "raised"}

\* Lines 86-99 up to the first await: return at once without a group, else
\* start the loop and suspend in the first send (or finish when there is
\* nothing to send to: the clean-up loop then has nothing to remove).
BeginBc(c, x) ==
  IF c \notin DOMAIN active_connections
  THEN [IdleBc EXCEPT !.pc = "done", !.conv = c, !.excl = x]
  ELSE LET lst == active_connections[c]
           j == NextIdx(lst, 0, x)
       IN IF j = 0
          THEN [IdleBc EXCEPT !.pc = "done", !.conv = c, !.excl = x, !.idx = Len(lst)]
          ELSE [IdleBc EXCEPT !.pc = "sending", !.conv = c, !.excl = x,
                              !.idx = j, !.cur = lst[j]]

\* What a broadcast call has done when BeginBc has run: snap is the group's
\* list as it was when the call started.
BeginBh(c) == [IdleBh EXCEPT !.snap = Members(active_connections, c)]

\* A caller outside the connection tasks (send_message_to_conversation,
\* send_status_update, ... from the request path) broadcasts to c.
ApiBroadcast ==
  \E c \in Convs :
   \E x \in {None} \cup Elems(Members(active_connections, c)) :
    /\ Running
    /\ bc[None].pc = "idle"
    /\ bc' = [bc EXCEPT ![None] = BeginBc(c, x)]
    /\ bh' = [bh EXCEPT ![None] = BeginBh(c)]
    /\ UNCHANGED <<active_connections, agent_connections, customer_connections,
                   typing_indicators, ws>>
    /\ UNCHANGED <<turnVars, apiVars>>

\* handle_message, typing_start / typing_stop: send_typing_indicator updates
\* the typing set, builds the payload from the updated set and broadcasts
\* it (lines 126-144, no await before the broadcast); the endpoint task
\* stays in handle_message until the broadcast is over.  No statement reads
\* the payload's content: the model keeps it when keep says so.
TypingFrameIn(keep) ==
  \E h \in Channels, isTyping \in BOOLEAN :
    /\ Running
    /\ ws[h].pc = "open"
    /\ typing_indicators' = SetTyping(typing_indicators, ws[h].conv, ws[h].user, isTyping)
    /\ bc' = [bc EXCEPT ![h] =
                [BeginBc(ws[h].conv, None) EXCEPT
                   !.data = IF keep
                            THEN TypingPayload(typing_indicators', ws[h].conv, isTyping)
                            ELSE <<>>]]
    /\ bh' = [bh EXCEPT ![h] = BeginBh(ws[h].conv)]
    /\ ws' = [ws EXCEPT ![h].pc = "handling"]
    /\ UNCHANGED <<active_connections, agent_connections, customer_connections>>
    /\ UNCHANGED <<turnVars, apiVars>>

\* A typing frame, the payload's content left out.
TypingFrame == TypingFrameIn(FALSE)

\* Lines 98-106: the awaited send ends (ok, or raising); the loop goes on to
\* the next websocket and suspends in its send, or ends and the clean-up
\* loop runs.
SendDoneIn(OKS) ==
  \E b \in Broadcasts, ok \in OKS :
    /\ Running
    /\ bc[b].pc = "sending"
    /\ LET me == bc[b]
           failed1 == IF ok THEN me.failed ELSE Append(me.failed, me.cur)
           deliv1 == IF ok THEN Append(bh[b].delivered, me.cur) ELSE bh[b].delivered
           lst == IterList(active_connections, me)
           j == NextIdx(lst, me.idx, me.excl)
           cl == CleanupFailed(active_connections, me.conv, failed1)
       IN IF j # 0
          THEN /\ bc' = [bc EXCEPT ![b].idx = j, ![b].cur = lst[j], ![b].failed = failed1]
               /\ bh' = [bh EXCEPT ![b].delivered = deliv1,
                                   ![b].late = @ \/ ws[lst[j]].pc = "closed"]
               /\ UNCHANGED active_connections
          ELSE /\ active_connections' = cl.ac
               /\ bc' = [bc EXCEPT ![b].pc = IF cl.raised THEN "raised" ELSE "done",
                                   ![b].cur = None, ![b].failed = failed1]
               /\ bh' = [o \in Broadcasts |->
                          IF o = b
                          THEN [bh[o] EXCEPT !.delivered = deliv1]
                          ELSE IF Iterating(o, me.conv) /\ cl.removed # {}
                          THEN [bh[o] EXCEPT !.mutated = TRUE]
                          ELSE bh[o]]
    /\ UNCHANGED <<agent_connections, customer_connections, typing_indicators, ws>>
    /\ UNCHANGED <<turnVars, apiVars>>

\* A send may succeed or fail.
SendDone == SendDoneIn(BOOLEAN)

\* broadcast_to_conversation is over (returned or raised) and control is back
\* in its caller; an endpoint task that called it from handle_message goes
\* back to receive_text (handle_message catches what the broadcast raised).
BroadcastReturn ==
  \E b \in {None} \cup Channels :
    /\ bc[b].pc \in {"done", "raised"}
    /\ bc' = [bc EXCEPT ![b] = IdleBc]
    /\ bh' = [bh EXCEPT ![b] = IdleBh]
    /\ ws' = IF b # None THEN [ws EXCEPT ![b].pc = "open"] ELSE ws
    /\ UNCHANGED <<active_connections, agent_connections, customer_connections,
                   typing_indicators>>
    /\ UNCHANGED <<turnVars, apiVars>>

\* --------------------------------------------------- websocket_endpoint
\* An endpoint task that has not started.
\* warned: the task has logged "Unknown message type" for a frame; lost: a
\* message frame of the websocket ended in the except clause of
\* handle_message with nothing broadcast.
NewWs == [pc |-> "new", conv |-> "-", role |-> "-", user |-> "-", ack |-> "none",
          warned |-> FALSE, lost |-> FALSE]

\* The next websocket object to arrive.
NextChannel(h) == ws[h].pc = "new" /\ \A g \in Channels : g < h => ws[g].pc # "new"

\* connect_to_conversation, lines 26-44: accept, register in the group and
\* in the role's table, start sending the confirmation.  When accept raises
\* nothing is registered and the call returns (line 51).
ConnectIn(CS, PS, AS, maxCh) ==
  \E h \in 1..maxCh, c \in CS, p \in PS, accepted \in AS :
   LET r == p[1]
       u == p[2]
   IN
    /\ Running
    /\ NextChannel(h)
    /\ IF accepted
       THEN /\ active_connections' = ConnectActive(active_connections, c, h)
            /\ agent_connections' = ConnectDirect(agent_connections, "agent", r, u, h)
            /\ customer_connections' = ConnectDirect(customer_connections, "customer", r, u, h)
            /\ ws' = [ws EXCEPT ![h] = [pc |-> "acking", conv |-> c, role |-> r,
                                        user |-> u, ack |-> "pending",
                                        warned |-> FALSE, lost |-> FALSE]]
            /\ bh' = [o \in Broadcasts |->
                       IF Iterating(o, c) THEN [bh[o] EXCEPT !.mutated = TRUE] ELSE bh[o]]
       ELSE /\ ws' = [ws EXCEPT ![h] = [pc |-> "refused", conv |-> c, role |-> r,
                                        user |-> u, ack |-> "none",
                                        warned |-> FALSE, lost |-> FALSE]]
            /\ UNCHANGED <<active_connections, agent_connections,
                           customer_connections, bh>>
    /\ UNCHANGED <<typing_indicators, bc>>
    /\ UNCHANGED <<turnVars, apiVars>>

\* The endpoint is called for any conversation and participant.
Connect == ConnectIn(Convs, Participants, BOOLEAN, NChannels)

\* connect_to_conversation, lines 43-52: the confirmation's send ends (ok in
\* OKS says how); a failure is logged and the call returns all the same.
AckDoneIn(OKS) ==
  \E h \in Channels, ok \in OKS :
    /\ Running
    /\ ws[h].pc = "acking"
    /\ ws' = [ws EXCEPT ![h].pc = "open", ![h].ack = IF ok THEN "sent" ELSE "failed"]
    /\ UNCHANGED <<active_connections, agent_connections, customer_connections,
                   typing_indicators, bc, bh>>
    /\ UNCHANGED <<turnVars, apiVars>>

\* The confirmation's send may succeed or fail.
AckDone == AckDoneIn(BOOLEAN)

\* server.py lines 362-375: receive_text raises and the finally clause calls
\* disconnect_from_conversation with the endpoint's own arguments.  The
\* endpoint task is then over: "closed" for a websocket that had been
\* accepted, "dropped" for one whose accept had failed.
Disconnect ==
  \E h \in Channels :
    /\ Running
    /\ ws[h].pc \in {"open", "refused"}
    /\ LET c == ws[h].conv
           u == ws[h].user
           R1 == DisconnectReg(Reg, c, u, h)
           wasIn == InList(h, Members(active_connections, c))
           gone == c \in DOMAIN active_connections /\ c \notin DOMAIN R1.ac
       IN /\ active_connections' = R1.ac
          /\ agent_connections' = R1.ag
          /\ customer_connections' = R1.cu
          /\ typing_indicators' = R1.ty
          /\ bc' = [o \in Broadcasts |->
                     IF Iterating(o, c) /\ gone THEN [bc[o] EXCEPT !.detached = TRUE]
                     ELSE bc[o]]
          /\ bh' = [o \in Broadcasts |->
                     IF Iterating(o, c) /\ wasIn
                     THEN [bh[o] EXCEPT !.mutated = TRUE]
                     ELSE bh[o]]
    /\ ws' = [ws EXCEPT ![h].pc = IF ws[h].pc = "refused" THEN "dropped" ELSE "closed",
                         ![h].ack = "none"]
    /\ UNCHANGED <<turnVars, apiVars>>

\* ConnectionManager.__init__ (lines 14-22), no endpoint task, no broadcast.
InitReg ==
  /\ active_connections = <<>>
  /\ agent_connections = <<>>
  /\ customer_connections = <<>>
  /\ typing_indicators = <<>>
  /\ ws = [h \in Channels |-> NewWs]
  /\ bc = [b \in Broadcasts |-> IdleBc]
  /\ bh = [b \in Broadcasts |-> IdleBh]

\* =================================================== MultiAgentCoordinator
\* The agent directory, in the order the storage query returns it.
AgentOrder == <<"a1", "a2">>
Agents == Elems(AgentOrder)
\* max_concurrent_conversations of each agent document of the directory.
Capacity == [a \in Agents |-> IF a = "a1" THEN 1 ELSE 2]
\* The stored conversations; "c0" is an id with no document.
TurnConvs == {"c1", "c2"}
\* assigned_agent_id = None.
NoAgent == "none"

\* chat_key = f"{agent.id}_{session_id}" (line 97): both parts are uuid4
\* strings, which hold no "_", so the key determines the pair and the pair
\* stands for it.  session_id is unique per conversation (database.py line
\* 51), so the conversation id stands for its session_id.
ChatKey(a, sid) == <<a, sid>>

\* The order in which the storage query (database.py lines 91-99) returns
\* the agent documents it holds.
DirectoryOrder == <<"a1", "a2", "a3", "a4">>

\* get_agents(status=active) on the directory dir: the documents with that
\* status, in the storage's order.
GetActiveAgents(dir) ==
  SelectSeq(DirectoryOrder, LAMBDA a : a \in DOMAIN dir /\ dir[a].status = "active")

\* Line 64, as a bug would have it: among the agents of least load the last
\* one of the directory is taken.
MinLoadLast(available, dir) ==
  CHOOSE i \in 1..Len(available) :
    /\ \A j \in 1..Len(available) :
         dir[available[i]].current_load <= dir[available[j]].current_load
    /\ \A j \in (i + 1)..Len(available) :
         dir[available[j]].current_load # dir[available[i]].current_load

\* min(available_agents, key=lambda a: a.current_load), line 64: the index
\* of the first agent of least load (Python's min keeps the first minimum).
MinLoad(available, dir) ==
  CHOOSE i \in 1..Len(available) :
    /\ \A j \in 1..Len(available) :
         dir[available[i]].current_load <= dir[available[j]].current_load
    /\ \A j \in 1..(i - 1) :
         dir[available[j]].current_load # dir[available[i]].current_load

\* Line 58: the agents below their capacity, in the order of the list.
AvailableAgents(active, dir) ==
  SelectSeq(active, LAMBDA a :
              dir[a].current_load < dir[a].max_concurrent_conversations)

\* get_best_agent_for_conversation, lines 51-66, on a directory snapshot:
\* the active agents, those below capacity, the first of least load.
\* Both early returns (lines 54 and 61) return None.
BestAgent(dir) ==
  LET active == GetActiveAgents(dir)
      available == AvailableAgents(active, dir)
  IN IF active = <<>> THEN NoAgent
     ELSE IF available = <<>> THEN NoAgent
     ELSE available[MinLoad(available, dir)]

\* Lines 98-101, as a bug would have them: a new chat is made and stored
\* whether or not the key already has one.
ResolveChatAlwaysNew(chats, key, fresh) == [map |-> Put(chats, key, fresh), chat |-> fresh]

\* Lines 98-101 and initialize_agent_chat lines 25-41: the chat stored under
\* the key, or else a new LlmChat object (fresh) stored under it.
ResolveChat(chats, key, fresh) ==
  IF key \in DOMAIN chats THEN [map |-> chats, chat |-> chats[key]]
  ELSE [map |-> Put(chats, key, fresh), chat |-> fresh]

\* ------------------------------------------------- _analyze_for_escalation
\* Texts are sequences of characters.  The upper-case letters and, at the
\* same places, their lower-case forms.
UpperCase == <<"A", "B", "C", "D", "E", "F", "G", "H", "I", "J", "K", "L", "M", "N", "O", "P", "Q", "R", "S", "T", "U", "V", "W", "X", "Y", "Z">>
LowerCase == <<"a", "b", "c", "d", "e", "f", "g", "h", "i", "j", "k", "l", "m", "n", "o", "p", "q", "r", "s", "t", "u", "v", "w", "x", "y", "z">>

\* str.lower() on one character and on a text.
ToLower(ch) ==
  IF \E i \in 1..Len(UpperCase) : UpperCase[i] = ch
  THEN LowerCase[CHOOSE i \in 1..Len(UpperCase) : UpperCase[i] = ch]
  ELSE ch
Lower(s) == [i \in 1..Len(s) |-> ToLower(s[i])]

\* k in s, on texts: k occurs in s as a substring.
Contains(s, k) == \E i \in 0..(Len(s) - Len(k)) : SubSeq(s, i + 1, i + Len(k)) = k

\* escalation_keywords, ai_service.py lines 165-168.
EscalationKeywords ==
  {<<"r", "e", "f", "u", "n", "d">>,
   <<"c", "a", "n", "c", "e", "l">>,
   <<"b", "i", "l", "l", "i", "n", "g", " ", "e", "r", "r", "o", "r">>,
   <<"c", "o", "m", "p", "l", "a", "i", "n", "t">>,
   <<"l", "e", "g", "a", "l">>,
   <<"s", "u", "p", "e", "r", "v", "i", "s", "o", "r">>,
   <<"m", "a", "n", "a", "g", "e", "r">>,
   <<"e", "s", "c", "a", "l", "a", "t", "e">>,
   <<"f", "r", "u", "s", "t", "r", "a", "t", "e", "d">>,
   <<"a", "n", "g", "r", "y">>}

\* _analyze_for_escalation (lines 162-171), as a bug would have it: the
\* generated response is scanned as well.
AnalyzeForEscalationBoth(user_message, ai_response) ==
  \E k \in EscalationKeywords :
    Contains(Lower(user_message), k) \/ Contains(Lower(ai_response), k)

\* _analyze_for_escalation (lines 162-171): whether a keyword occurs in the
\* lower-cased user message; ai_response is not read.
AnalyzeForEscalation(user_message, ai_response) ==
  \E k \in EscalationKeywords : Contains(Lower(user_message), k)

\* Two messages and a response, as texts.
RefundMessage == <<"I", " ", "w", "a", "n", "t", " ", "a", " ", "r", "e", "f", "u", "n", "d", " ", "n", "o", "w">>
ThanksMessage == <<"t", "h", "a", "n", "k", "s", ",", " ", "t", "h", "a", "t", " ", "h", "e", "l", "p", "e", "d">>
RefundReply == <<"Y", "o", "u", "r", " ", "r", "e", "f", "u", "n", "d", " ", "i", "s", " ", "o", "n", " ", "i", "t", "s", " ", "w", "a", "y">>
PlainReply == <<"G", "l", "a", "d", " ", "t", "o", " ", "h", "e", "l", "p">>

\* The messages a call gets where their text is not what is examined: one
\* with a keyword and one without.
SampleMessages == {RefundMessage, ThanksMessage}
SampleReplies == {PlainReply}

\* ------------------------------------------------- the context of a call
\* conversation.messages[-10:] of line 107 takes the last ContextWindow
\* messages.
ContextWindow == 10

\* sender_type of a stored message: the user message of a request
\* (server.py line 275) and its agent message (line 302).
SenderType(m) == IF m[2] = "in" THEN "user" ELSE IF m[2] = "out" THEN "agent" ELSE m[2]

\* Line 107, as a bug would have it: the first messages of the history are
\* taken.
RecentMessagesFirst(messages) ==
  IF Len(messages) <= ContextWindow THEN messages
  ELSE SubSeq(messages, 1, ContextWindow)

\* Line 107: messages[-10:], the whole list when it has no more than that.
RecentMessages(messages) ==
  IF Len(messages) <= ContextWindow THEN messages
  ELSE SubSeq(messages, Len(messages) - ContextWindow + 1, Len(messages))

\* Lines 108-112: the line of a message in the prompt, tagged by its sender;
\* a message of another sender type gets no line.
RECURSIVE ContextMessages(_)
ContextMessages(recent) ==
  IF recent = <<>> THEN <<>>
  ELSE LET m == Head(recent)
           line == IF SenderType(m) = "user" THEN <<<<"Customer", m>>>>
                   ELSE IF SenderType(m) = "agent" THEN <<<<"Agent", m>>>>
                   ELSE <<>>
       IN line \o ContextMessages(Tail(recent))

\* Lines 104-123: the prompt of call t over the messages of the conversation
\* it read, as the list of its lines (the customer context line, the same
\* for every call, left out): the history lines, then the message of the
\* call itself, which t stands for.
BuildContext(messages, t) ==
  ContextMessages(RecentMessages(messages)) \o <<<<"Customer Message", t>>>>

\* A generate_response call that has not started.  cause records which
\* statement raised into the except clause of line 148, kw whether
\* _analyze_for_escalation (lines 162-171) found a keyword in the message.
\* msg is message_content and reply the collaborator's answer, both known to
\* the model from line 132 on, where the code first decides on them.
\* messages is conversation.messages as read at line 78, kept until the
\* prompt is built from it; context is that prompt, kept while send_message
\* is awaited with it.
IdleTurn == [pc |-> "idle", conv |-> "-", assigned |-> NoAgent, agent |-> NoAgent,
             chat |-> 0, result |-> "none", cause |-> "none", kw |-> FALSE,
             msg |-> <<>>, reply |-> <<>>, messages |-> <<>>, context |-> <<>>]

\* confidence=0.85 of line 140 and confidence=0.1 of line 155, in hundredths.
OkConfidence == 85
FallbackConfidence == 10

\* Lines 153-160: the AgentResponse built in the except clause.
FallbackResponse ==
  [message |-> "fallback", confidence |-> FallbackConfidence, agent_id |-> "system",
   requires_human_escalation |-> TRUE,
   escalation_reason |-> "Technical error in AI system"]

\* Lines 138-146: the AgentResponse built from the collaborator's answer.
OkResponse(a, kw) ==
  [message |-> "answer", confidence |-> OkConfidence, agent_id |-> a,
   requires_human_escalation |-> kw,
   escalation_reason |-> IF kw THEN "Complex issue requiring human expertise"
                         ELSE "None"]

\* Lines 148-160, as a bug would have them: the response of the success
\* path is returned also after an error.
AgentResponseOfSuccessOnly(t) == OkResponse(turn[t].agent, turn[t].kw)

\* What call t returned (it has returned).
AgentResponseOf(t) ==
  IF turn[t].result = "ok" THEN OkResponse(turn[t].agent, turn[t].kw)
  ELSE FallbackResponse

\* The first call that has not started (calls are interchangeable).
NextTurn(t) == turn[t].pc = "idle" /\ \A o \in Turns : o < t => turn[o].pc # "idle"

\* Lines 96-127 up to the await of send_message, run by call t once its
\* agent a is known: resolve or create the chat, then suspend in the
\* generation; when LlmChat(...) raises (lines 43-45) nothing is stored and
\* the call ends in the fallback response (lines 148-160).
EnterSession(t, a, initOk) ==
  LET key == ChatKey(a, turn[t].conv)
      fresh == Len(sessions) + 1
      r == ResolveChat(active_chats, key, fresh)
  IN IF key \notin DOMAIN active_chats /\ ~initOk
     THEN /\ turn' = [turn EXCEPT ![t].pc = "returned", ![t].agent = a,
                                  ![t].result = "degraded", ![t].cause = "init",
                                  ![t].messages = <<>>]
          /\ UNCHANGED <<active_chats, sessions>>
     ELSE /\ active_chats' = r.map
          /\ sessions' = IF r.chat = fresh
                         THEN Append(sessions, [key |-> key, closed |-> FALSE])
                         ELSE sessions
          /\ turn' = [turn EXCEPT ![t].pc = "generate", ![t].agent = a, ![t].chat = r.chat,
                                  ![t].context = BuildContext(turn[t].messages, t),
                                  ![t].messages = <<>>]

\* Lines 76-88: the call starts and get_conversation answers; an unknown id
\* raises into the fallback response.
StartTurnOf(t, c) ==
    /\ turn[t].pc = "idle"
    /\ IF c \notin DOMAIN db_conversations
       THEN turn' = [turn EXCEPT ![t] = [IdleTurn EXCEPT !.pc = "returned", !.conv = c,
                                                        !.result = "degraded",
                                                        !.cause = "conversation"]]
       ELSE LET a == db_conversations[c].assigned_agent_id
            IN turn' = [turn EXCEPT ![t] =
                          [IdleTurn EXCEPT !.pc = IF a # NoAgent THEN "get_agent"
                                                  ELSE "get_agents",
                                           !.conv = c, !.assigned = a,
                                           !.messages = db_messages[c]]]
    /\ UNCHANGED <<db_conversations, db_agents, active_chats, sessions>>
    /\ UNCHANGED regVars

\* generate_response is called on its own, for any conversation id.
StartTurn ==
  \E t \in Turns, c \in TurnConvs \cup {"c0"} :
    /\ NextTurn(t)
    /\ StartTurnOf(t, c)
    /\ UNCHANGED apiVars

\* Lines 84-101: get_agent answers for the assigned agent; with the agent
\* in hand the call goes on to its chat, without it to the router.
GetAgent ==
  \E t \in Turns, initOk \in BOOLEAN :
    /\ turn[t].pc = "get_agent"
    /\ IF turn[t].assigned \in DOMAIN db_agents
       THEN EnterSession(t, turn[t].assigned, initOk)
       ELSE /\ turn' = [turn EXCEPT ![t].pc = "get_agents"]
            /\ UNCHANGED <<active_chats, sessions>>
    /\ UNCHANGED <<db_conversations, db_agents>>
    /\ UNCHANGED <<regVars, apiVars>>

\* Lines 88-94 and 51-66: get_agents answers and the router picks on that
\* snapshot; with an agent the call awaits the assignment's write, without
\* one it raises into the fallback response.
GetAgents ==
  \E t \in Turns :
    /\ turn[t].pc = "get_agents"
    /\ LET a == BestAgent(db_agents)
       IN turn' = IF a = NoAgent
                  THEN [turn EXCEPT ![t].pc = "returned", ![t].result = "degraded",
                                    ![t].cause = "router", ![t].messages = <<>>]
                  ELSE [turn EXCEPT ![t].pc = "assign", ![t].agent = a]
    /\ UNCHANGED <<db_conversations, db_agents, active_chats, sessions>>
    /\ UNCHANGED <<regVars, apiVars>>

\* Line 90 and database.py lines 174-185: the assignment is written.
AssignAgent ==
  \E t \in Turns :
    /\ turn[t].pc = "assign"
    /\ db_conversations' = [db_conversations EXCEPT
                              ![turn[t].conv].assigned_agent_id = turn[t].agent]
    /\ turn' = [turn EXCEPT ![t].pc = "load"]
    /\ UNCHANGED <<db_agents, active_chats, sessions>>
    /\ UNCHANGED <<regVars, apiVars>>

\* Line 91 and database.py lines 101-107: the agent's load is incremented;
\* the call then goes on to its chat.
UpdateLoad ==
  \E t \in Turns, initOk \in BOOLEAN :
    /\ turn[t].pc = "load"
    /\ db_agents' = [db_agents EXCEPT ![turn[t].agent].current_load = @ + 1]
    /\ EnterSession(t, turn[t].agent, initOk)
    /\ UNCHANGED db_conversations
    /\ UNCHANGED <<regVars, apiVars>>

\* Lines 127-160: send_message answers with a text of RS to a call whose
\* message is a text of MS, the message is analysed and the response is
\* built; or send_message raises (an error of the collaborator, a timeout of
\* its own) into the fallback response.
GenerateIn(MS, RS) ==
  \E t \in Turns, ok \in BOOLEAN, m \in MS, a \in RS :
    /\ turn[t].pc = "generate"
    /\ turn' = [turn EXCEPT ![t] =
                  IF ok THEN [@ EXCEPT !.pc = "returned", !.result = "ok",
                                       !.kw = AnalyzeForEscalation(m, a),
                                       !.msg = m, !.reply = a, !.context = <<>>]
                  ELSE [@ EXCEPT !.pc = "returned", !.result = "degraded",
                                 !.cause = "generate", !.context = <<>>]]
    /\ UNCHANGED <<db_conversations, db_agents, active_chats, sessions>>
    /\ UNCHANGED <<regVars, apiVars>>

\* The call's message has a keyword or has none.
Generate == GenerateIn(SampleMessages, SampleReplies)

\* Lines 239-240, as a bug would have them: the whole map is emptied.
CleanupChatAll(chats, key) == <<>>

\* Lines 239-240: del self.active_chats[chat_key] when the key is there.
CleanupChat(chats, key) == IF key \in DOMAIN chats THEN Del(chats, key) ELSE chats

\* cleanup_chat_session, as a bug would have it: the chat is given up but
\* its entry stays in the map.
CloseSessionKeepsChat ==
  \E a \in Agents, c \in TurnConvs :
    /\ ChatKey(a, c) \in DOMAIN active_chats
    /\ ~sessions[active_chats[ChatKey(a, c)]].closed
    /\ sessions' = [sessions EXCEPT ![active_chats[ChatKey(a, c)]].closed = TRUE]
    /\ UNCHANGED <<db_conversations, db_agents, turn, active_chats>>
    /\ UNCHANGED <<regVars, apiVars>>

\* cleanup_chat_session, lines 236-240: the key's chat, if any, is dropped.
CloseSession ==
  \E a \in Agents, c \in TurnConvs :
    /\ active_chats' = CleanupChat(active_chats, ChatKey(a, c))
    /\ sessions' = IF ChatKey(a, c) \in DOMAIN active_chats
                   THEN [sessions EXCEPT ![active_chats[ChatKey(a, c)]].closed = TRUE]
                   ELSE sessions
    /\ UNCHANGED <<db_conversations, db_agents, turn>>
    /\ UNCHANGED <<regVars, apiVars>>

\* MultiAgentCoordinator.__init__ (lines 17-20) over a storage that holds
\* the conversations, none assigned, and the agents, none loaded.
InitTurn ==
  /\ db_conversations = [c \in TurnConvs |-> [assigned_agent_id |-> NoAgent,
                                              status |-> "active"]]
  /\ db_agents \in {[a \in Agents |-> [current_load |-> 0,
                                       max_concurrent_conversations |-> Capacity[a],
                                       status |-> st[a]]] :
                     st \in [Agents -> {"active", "inactive"}]}
  /\ active_chats = <<>>
  /\ sessions = <<>>
  /\ turn = [t \in Turns |-> IdleTurn]

\* No request and no direct send is running; the conversations hold no
\* message.
\* sent lists the types of the frames the request has broadcast so far, esc
\* is requires_human_escalation of the response it got from
\* generate_response.
IdleReq == [pc |-> "idle", conv |-> "-", sent |-> <<>>, esc |-> FALSE]
IdleDs == [pc |-> "idle", agent |-> "-", target |-> None, failed |-> FALSE,
           result |-> "-"]

InitApi ==
  /\ db_messages = [c \in TurnConvs |-> <<>>]
  /\ req = [r \in Requests |-> IdleReq]
  /\ ds = IdleDs

Init == InitReg /\ InitTurn /\ InitApi

\* ---------------------------------------------------------- send_to_agent
\* Lines 186-189 up to the await: with an entry for the id the call suspends
\* in the send to the websocket the entry holds now; without one it falls
\* off the end of the function, which returns None.
SendToAgent ==
  \E a \in Users :
    /\ Running
    /\ ds.pc = "idle"
    /\ ds' = IF a \in DOMAIN agent_connections
             THEN [IdleDs EXCEPT !.pc = "sending", !.agent = a,
                                 !.target = agent_connections[a]]
             ELSE [IdleDs EXCEPT !.pc = "returned", !.agent = a, !.result = "None"]
    /\ UNCHANGED <<db_messages, req>>
    /\ UNCHANGED <<regVars, turnVars>>

\* Lines 189-194: the awaited send ends.  After a failure the except clause
\* runs del self.agent_connections[agent_id] on the table as it is now: it
\* deletes whatever entry the id has, and raises KeyError when it has none.
\* The function has no return statement: it returns None.
DirectSendDone ==
  \E ok \in BOOLEAN :
    /\ Running
    /\ ds.pc = "sending"
    /\ IF ok
       THEN /\ ds' = [ds EXCEPT !.pc = "returned", !.result = "None"]
            /\ UNCHANGED agent_connections
       ELSE IF ds.agent \in DOMAIN agent_connections
       THEN /\ agent_connections' = Del(agent_connections, ds.agent)
            /\ ds' = [ds EXCEPT !.pc = "returned", !.failed = TRUE, !.result = "None"]
       ELSE /\ ds' = [ds EXCEPT !.pc = "raised", !.failed = TRUE]
            /\ UNCHANGED agent_connections
    /\ UNCHANGED <<active_connections, customer_connections, typing_indicators,
                   ws, bc, bh>>
    /\ UNCHANGED <<db_messages, req>>
    /\ UNCHANGED turnVars

\* send_to_agent is over and control is back in its caller.
DirectReturn ==
  /\ ds.pc \in {"returned", "raised"}
  /\ ds' = IdleDs
  /\ UNCHANGED <<db_messages, req>>
  /\ UNCHANGED <<regVars, turnVars>>

\* ----------------------------------------------------------- send_message
\* The conversation ids requests come for; "c0" has no document.
ReqConvs == {"c1", "c0"}

\* The stored message of request r, inbound ("in") or outbound ("out"), and
\* the message of a frame received on websocket h, as values.
Msg(r, dir) == <<r, dir>>

\* add_message_to_conversation (database.py lines 150-159), as a bug would
\* have it: nothing is pushed.
AddMessageLost(msgs, c, m) == msgs

\* add_message_to_conversation (database.py lines 150-159): $push of the
\* message onto the conversation's messages.
AddMessage(msgs, c, m) == [msgs EXCEPT ![c] = Append(@, m)]

\* The generate_response call of a request that is over: its locals are gone.
OverTurn == [IdleTurn EXCEPT !.pc = "returned"]

\* The calls, with that of request r dropped when the request ends in pc.
DropTurn(r, pc) == IF pc \in {"returned", "failed", "aborted"}
                   THEN [turn EXCEPT ![r] = OverTurn]
                   ELSE turn

\* A request that ended in HTTP 500 (server.py lines 332-334) for an unknown
\* conversation or a failed write of the storage.
FailedReq(c) == [IdleReq EXCEPT !.pc = "failed", !.conv = c]

\* The type of the frame a request broadcasts in position pc: "new_message"
\* (websocket_manager.py line 111) for the two messages, "escalation" (line
\* 176) for the notice.
FrameType(pc) == IF pc = "bcast_esc" THEN "escalation" ELSE "new_message"

\* server.py lines 316-334: where a request goes when its broadcast in
\* position pc is over: to HTTP 500 when it raised ("aborted": what the
\* broadcast raised is caught at line 332), else from the user
\* message to the agent message, from there to the escalation notice when
\* the response requires escalation (line 326), from the notice to the
\* status write, and otherwise to the return of line 330.
AfterBroadcast(pc, raised, esc) ==
  IF raised THEN "aborted"
  ELSE IF pc = "bcast_in" THEN "bcast_out"
  ELSE IF pc = "bcast_out" /\ esc THEN "bcast_esc"
  ELSE IF pc = "bcast_esc" THEN "status"
  ELSE "returned"

\* The first request that has not started (requests are interchangeable).
NextReq(r) == req[r].pc = "idle" /\ \A o \in Requests : o < r => req[o].pc # "idle"

\* server.py lines 256-291: the request arrives and get_conversation
\* answers; an unknown id raises (HTTP 500 out of line 334), else the user
\* message is built and the request awaits its write.
ReqStartIn(maxReq) ==
  \E r \in 1..maxReq, c \in ReqConvs :
    /\ Running
    /\ NextReq(r)
    /\ req' = [req EXCEPT ![r] = IF c \in DOMAIN db_conversations
                                  THEN [IdleReq EXCEPT !.pc = "persist_in", !.conv = c]
                                  ELSE FailedReq(c)]
    /\ UNCHANGED <<db_messages, ds>>
    /\ UNCHANGED <<regVars, turnVars>>

\* Any of the requests may arrive.
ReqStart == ReqStartIn(NTurns)

\* server.py lines 291-294: the write of the user message ends (or raises)
\* and generate_response is called.
ReqPersistIn ==
  \E r \in Requests, ok \in BOOLEAN :
    /\ Running
    /\ req[r].pc = "persist_in"
    /\ db_messages' = IF ok THEN AddMessage(db_messages, req[r].conv, Msg(r, "in"))
                      ELSE db_messages
    /\ req' = [req EXCEPT ![r] = IF ok THEN [@ EXCEPT !.pc = "generate"]
                                  ELSE FailedReq(@.conv)]
    /\ UNCHANGED ds
    /\ UNCHANGED <<regVars, turnVars>>

\* server.py line 294, ai_service.py lines 76-88: the request's
\* generate_response call starts and its get_conversation answers.
ReqGenerate ==
  \E r \in Requests :
    /\ Running
    /\ req[r].pc = "generate"
    /\ StartTurnOf(r, req[r].conv)
    /\ UNCHANGED apiVars

\* server.py lines 297-318: generate_response has returned; the write of
\* the agent message ends (or raises), then send_message_to_conversation
\* starts the broadcast of the user message.
ReqPersistOut ==
  \E r \in Requests, ok \in BOOLEAN :
    /\ Running
    /\ req[r].pc = "generate"
    /\ turn[r].pc = "returned"
    /\ IF ok
       THEN /\ db_messages' = AddMessage(db_messages, req[r].conv, Msg(r, "out"))
            /\ req' = [req EXCEPT ![r].pc = "bcast_in",
                                   ![r].sent = <<FrameType("bcast_in")>>,
                                   ![r].esc = AgentResponseOf(r).requires_human_escalation]
            /\ bc' = [bc EXCEPT ![ReqSlot(r)] = BeginBc(req[r].conv, None)]
            /\ bh' = [bh EXCEPT ![ReqSlot(r)] = BeginBh(req[r].conv)]
            /\ UNCHANGED turn
       ELSE /\ req' = [req EXCEPT ![r] = FailedReq(@.conv)]
            /\ turn' = DropTurn(r, "failed")
            /\ UNCHANGED <<db_messages, bc, bh>>
    /\ UNCHANGED <<active_connections, agent_connections, customer_connections,
                   typing_indicators, ws>>
    /\ UNCHANGED ds
    /\ UNCHANGED <<db_conversations, db_agents, active_chats, sessions>>

\* server.py lines 316-328, 332-334: a broadcast of the request is over.
\* What it raised becomes HTTP 500, the frames sent so far being sent; else the next broadcast starts (the agent
\* message, then the escalation notice when the response requires it), and
\* after the last one the request awaits update_conversation_status or
\* returns.
ReqBroadcastReturn ==
  \E r \in Requests :
    LET b == ReqSlot(r)
        pc1 == AfterBroadcast(req[r].pc, bc[b].pc = "raised", req[r].esc)
        more == pc1 \in {"bcast_out", "bcast_esc"}
    IN /\ bc[b].pc \in {"done", "raised"}
       /\ req[r].pc \in {"bcast_in", "bcast_out", "bcast_esc"}
       /\ IF more
          THEN /\ bc' = [bc EXCEPT ![b] = BeginBc(req[r].conv, None)]
               /\ bh' = [bh EXCEPT ![b] = BeginBh(req[r].conv)]
          ELSE /\ bc' = [bc EXCEPT ![b] = IdleBc]
               /\ bh' = [bh EXCEPT ![b] = IdleBh]
       /\ req' = [req EXCEPT ![r] = IF more
                                    THEN [@ EXCEPT !.pc = pc1,
                                                   !.sent = Append(@, FrameType(pc1))]
                                    ELSE [@ EXCEPT !.pc = pc1]]
       /\ turn' = DropTurn(r, pc1)
       /\ UNCHANGED <<active_connections, agent_connections, customer_connections,
                      typing_indicators, ws>>
       /\ UNCHANGED <<db_messages, ds>>
       /\ UNCHANGED <<db_conversations, db_agents, active_chats, sessions>>

\* server.py lines 328-330 and database.py lines 161-172: the status write
\* ends (or raises) and the response is returned.
ReqStatus ==
  \E r \in Requests, ok \in BOOLEAN :
    /\ Running
    /\ req[r].pc = "status"
    /\ db_conversations' = IF ok
                           THEN [db_conversations EXCEPT ![req[r].conv].status = "escalated"]
                           ELSE db_conversations
    /\ req' = [req EXCEPT ![r] = IF ok THEN [@ EXCEPT !.pc = "returned"]
                                  ELSE FailedReq(@.conv)]
    /\ turn' = DropTurn(r, "returned")
    /\ UNCHANGED <<db_agents, active_chats, sessions>>
    /\ UNCHANGED <<db_messages, ds>>
    /\ UNCHANGED regVars

\* The values of MessageType (models.py lines 21-25).
MessageTypes == {"user", "agent", "system", "internal"}

\* handle_message, type "message" (websocket_manager.py lines 239-244): the
\* frame's content goes straight to send_message_to_conversation, which
\* starts its broadcast; the endpoint task stays in handle_message until the
\* broadcast is over.  For a role that is no MessageType, MessageType(
\* user_type) of line 243 raises ValueError before the call is made,
\* handle_message logs it (lines 253-254) and nothing is broadcast.
MessageFrame ==
  \E h \in Channels :
    /\ Running
    /\ ws[h].pc = "open"
    /\ IF ws[h].role \in MessageTypes
       THEN /\ bc' = [bc EXCEPT ![h] = BeginBc(ws[h].conv, None)]
            /\ bh' = [bh EXCEPT ![h] = BeginBh(ws[h].conv)]
            /\ ws' = [ws EXCEPT ![h].pc = "relaying"]
       ELSE /\ ws' = [ws EXCEPT ![h].lost = TRUE]
            /\ UNCHANGED <<bc, bh>>
    /\ UNCHANGED <<active_connections, agent_connections, customer_connections,
                   typing_indicators>>
    /\ UNCHANGED <<turnVars, apiVars>>

\* handle_message with a frame of an unknown type, as a bug would have it:
\* the frame is taken for typing_stop.
UnknownFrameAsTypingStop ==
  \E h \in Channels :
    /\ Running
    /\ ws[h].pc = "open"
    /\ typing_indicators' = SetTyping(typing_indicators, ws[h].conv, ws[h].user, FALSE)
    /\ bc' = [bc EXCEPT ![h] = BeginBc(ws[h].conv, None)]
    /\ bh' = [bh EXCEPT ![h] = BeginBh(ws[h].conv)]
    /\ ws' = [ws EXCEPT ![h].pc = "handling", ![h].warned = TRUE]
    /\ UNCHANGED <<active_connections, agent_connections, customer_connections>>
    /\ UNCHANGED <<turnVars, apiVars>>

\* handle_message with a frame whose type is none of typing_start,
\* typing_stop, message and status_request (websocket_manager.py lines
\* 250-251): a warning is logged and handle_message returns; the endpoint
\* task is back in receive_text (server.py line 365).
UnknownFrame ==
  \E h \in Channels :
    /\ Running
    /\ ws[h].pc = "open"
    /\ ws' = [ws EXCEPT ![h].warned = TRUE]
    /\ UNCHANGED <<active_connections, agent_connections, customer_connections,
                   typing_indicators, bc, bh>>
    /\ UNCHANGED <<turnVars, apiVars>>

\* The start with the directory as initialize_default_agents leaves it
\* (server.py lines 62-117): every agent active.
InitDefaultAgents == Init /\ \A a \in Agents : db_agents[a].status = "active"

\* The registry under connections that come and go, nothing else running.
NextConn ==
  \/ Connect
  \/ AckDone
  \/ Disconnect

SpecConn == InitDefaultAgents /\ [][NextConn]_vars

\* The conversation and the participant of the broadcast specifications.
OneConv == {"c1"}
OneParticipant == {<<"agent", "a1">>}

\* The registry under connections that come and go while the request path
\* broadcasts (one request at a time).
NextBcast ==
  \/ ConnectIn(OneConv, OneParticipant, BOOLEAN, NChannels)
  \/ AckDone
  \/ Disconnect
  \/ ApiBroadcast
  \/ SendDone
  \/ BroadcastReturn

SpecBcast == InitDefaultAgents /\ [][NextBcast]_vars

\* The registry under connections that come and go while the endpoint tasks
\* handle typing frames, each with its own broadcast.
NextTyping ==
  \/ ConnectIn(OneConv, OneParticipant, BOOLEAN, NTypingChannels)
  \/ AckDoneIn({TRUE})
  \/ Disconnect
  \/ TypingFrame
  \/ SendDone
  \/ BroadcastReturn

SpecTyping == InitDefaultAgents /\ [][NextTyping]_vars

\* The registry under connections that come and go while the endpoint tasks
\* handle typing frames and frames of unknown types; every send succeeds.
NextFrames ==
  \/ ConnectIn(OneConv, OneParticipant, {TRUE}, NTypingChannels)
  \/ AckDoneIn({TRUE})
  \/ Disconnect
  \/ TypingFrame
  \/ UnknownFrame
  \/ SendDoneIn({TRUE})
  \/ BroadcastReturn

SpecFrames == InitDefaultAgents /\ [][NextFrames]_vars

\* The websockets of an agent and of a customer of one conversation, which
\* connect, send message frames and disconnect; every send succeeds.
NextRelay ==
  \/ ConnectIn(OneConv, Participants, {TRUE}, NTypingChannels)
  \/ AckDoneIn({TRUE})
  \/ Disconnect
  \/ MessageFrame
  \/ SendDoneIn({TRUE})
  \/ BroadcastReturn

SpecRelay == InitDefaultAgents /\ [][NextRelay]_vars

\* The websockets of an agent and of a customer of one conversation, which
\* connect, send typing frames and disconnect; the payload of each typing
\* broadcast is kept, and every send succeeds.
NextTypingPayload ==
  \/ ConnectIn(OneConv, Participants, {TRUE}, NTypingChannels)
  \/ AckDoneIn({TRUE})
  \/ Disconnect
  \/ TypingFrameIn(TRUE)
  \/ SendDoneIn({TRUE})
  \/ BroadcastReturn

SpecTypingPayload == InitDefaultAgents /\ [][NextTypingPayload]_vars

\* The registry of one agent's connections with direct sends to it.
NextDirect ==
  \/ ConnectIn(OneConv, OneParticipant, BOOLEAN, NChannels)
  \/ AckDone
  \/ Disconnect
  \/ SendToAgent
  \/ DirectSendDone
  \/ DirectReturn

SpecDirect == InitDefaultAgents /\ [][NextDirect]_vars

\* The send_message requests of one conversation, their generate_response
\* calls and their broadcasts, with a websocket of the conversation that
\* connects, sends message frames and disconnects.
NextRequest ==
  \/ ConnectIn(OneConv, OneParticipant, {TRUE}, NRequestChannels)
  \/ AckDoneIn({TRUE})
  \/ Disconnect
  \/ MessageFrame
  \/ SendDone
  \/ BroadcastReturn
  \/ ReqStart
  \/ ReqPersistIn
  \/ ReqGenerate
  \/ GetAgent
  \/ GetAgents
  \/ AssignAgent
  \/ UpdateLoad
  \/ Generate
  \/ ReqPersistOut
  \/ ReqBroadcastReturn
  \/ ReqStatus

SpecRequest == InitDefaultAgents /\ [][NextRequest]_vars

\* The send_message requests of a conversation whose websockets connect,
\* stay, and take every frame sent to them; the storage may fail.
NextPersist ==
  \/ ConnectIn(OneConv, OneParticipant, {TRUE}, NRequestChannels)
  \/ AckDoneIn({TRUE})
  \/ SendDoneIn({TRUE})
  \/ ReqStartIn(NSoloRequests)
  \/ ReqPersistIn
  \/ ReqGenerate
  \/ GetAgent
  \/ GetAgents
  \/ AssignAgent
  \/ UpdateLoad
  \/ Generate
  \/ ReqPersistOut
  \/ ReqBroadcastReturn
  \/ ReqStatus

\* The state after an earlier request on "c1" and a restart of the server:
\* the storage keeps the assignment, the agent's load and the two messages
\* of that request (request 0); the registry and the chat map, which live in
\* memory, are as constructed.
InitAfterRestart ==
  /\ InitReg
  /\ db_conversations = [c \in TurnConvs |->
                          [assigned_agent_id |-> IF c = "c1" THEN "a1" ELSE NoAgent,
                           status |-> "active"]]
  /\ db_agents = [a \in Agents |-> [current_load |-> IF a = "a1" THEN 1 ELSE 0,
                                    max_concurrent_conversations |-> Capacity[a],
                                    status |-> "active"]]
  /\ active_chats = <<>>
  /\ sessions = <<>>
  /\ turn = [t \in Turns |-> IdleTurn]
  /\ db_messages = [c \in TurnConvs |->
                     IF c = "c1" THEN <<Msg(0, "in"), Msg(0, "out")>> ELSE <<>>]
  /\ req = [r \in Requests |-> IdleReq]
  /\ ds = IdleDs

SpecPersist == (InitDefaultAgents \/ InitAfterRestart) /\ [][NextPersist]_vars

\* The statuses of a conversation that has ended (models.py lines 16, 19).
EndedStatuses == {"resolved", "closed"}

\* A storage whose conversations have ended, "c1" with the agent a1 that
\* served it still assigned or with none; the registry and the chat map as
\* constructed.
InitEnded ==
  /\ InitReg
  /\ InitApi
  /\ \E s \in [TurnConvs -> EndedStatuses], a \in {NoAgent, "a1"} :
       /\ db_conversations = [c \in TurnConvs |->
                               [assigned_agent_id |-> IF c = "c1" THEN a ELSE NoAgent,
                                status |-> s[c]]]
       /\ db_agents = [x \in Agents |->
                        [current_load |-> IF x = a THEN 1 ELSE 0,
                         max_concurrent_conversations |-> Capacity[x],
                         status |-> "active"]]
  /\ active_chats = <<>>
  /\ sessions = <<>>
  /\ turn = [t \in Turns |-> IdleTurn]

\* The send_message requests of a conversation that has ended.
SpecEnded == InitEnded /\ [][NextPersist]_vars

\* max_concurrent_conversations of an agent document made without one
\* (models.py line 80).
DefaultCapacity == 10

\* A storage whose directory holds any agent documents: each of any load up
\* to MaxLoad, of low or default capacity, active or not.
InitRouter ==
  /\ InitReg
  /\ InitApi
  /\ db_conversations = [c \in TurnConvs |-> [assigned_agent_id |-> NoAgent,
                                              status |-> "active"]]
  /\ db_agents \in [Elems(DirectoryOrder) ->
                     [current_load : 0..MaxLoad,
                      max_concurrent_conversations : {LowCapacity, DefaultCapacity},
                      status : {"active", "inactive"}]]
  /\ active_chats = <<>>
  /\ sessions = <<>>
  /\ turn = [t \in Turns |-> IdleTurn]

\* generate_response is called once, for the stored conversation "c1".
StartOneTurn ==
  /\ StartTurnOf(1, "c1")
  /\ UNCHANGED apiVars

\* One call up to the router's answer, on any directory.
NextRouter ==
  \/ StartOneTurn
  \/ GetAgents

SpecRouter == InitRouter /\ [][NextRouter]_vars

\* The longest history of the specification of the context.
MaxHistory == 11

\* The histories of at most n messages, each of a user or of an agent: the
\* message at place i is Msg(i, "in") or Msg(i, "out").
Histories(n) ==
  UNION {{[i \in 1..k |-> Msg(i, d[i])] : d \in [1..k -> {"in", "out"}]} : k \in 0..n}

\* The start over a storage whose conversation "c1" has any history.
InitContext ==
  /\ InitReg
  /\ InitTurn
  /\ \A a \in Agents : db_agents[a].status = "active"
  /\ db_messages \in {[c \in TurnConvs |-> IF c = "c1" THEN h ELSE <<>>] :
                        h \in Histories(MaxHistory)}
  /\ req = [r \in Requests |-> IdleReq]
  /\ ds = IdleDs

\* One call on the conversation, up to its response.
NextContext ==
  \/ StartOneTurn
  \/ GetAgents
  \/ AssignAgent
  \/ UpdateLoad
  \/ Generate

SpecContext == InitContext /\ [][NextContext]_vars

\* The largest number of pieces a message is put together from.
MaxPieces == 2

\* Pieces of text: keywords whole, in other letter cases, cut in two, and
\* other text.
Pieces ==
  {<<"r", "e", "f", "u", "n">>,
   <<"d">>,
   <<"R", "E", "F", "U", "N", "D">>,
   <<"C", "a", "n", "c", "e", "l">>,
   <<"b", "i", "l", "l", "i", "n", "g">>,
   <<"B", "i", "l", "l", "i", "n", "g", " ">>,
   <<"e", "r", "r", "o", "r">>,
   <<" ">>,
   <<"l", "e", "g", "a", "l">>,
   <<"a", "n", "g", "r">>,
   <<"t", "h", "a", "n", "k", "s">>,
   <<"y", "?">>,
   <<"e", "S", "c", "A", "l", "A", "t", "E">>,
   <<"r", "e", " ", "f", "u", "n", "d">>}

\* The texts put together from at most n pieces.
RECURSIVE Texts(_)
Texts(n) ==
  IF n = 0 THEN {<<>>}
  ELSE Texts(n - 1) \cup {s \o p : s \in Texts(n - 1), p \in Pieces}

\* The messages and the responses of the specification of the analysis.
Messages == Texts(MaxPieces) \cup SampleMessages
Replies == {PlainReply, RefundReply}

\* One call with any message, answered with any response.
NextEscalation ==
  \/ StartOneTurn
  \/ GetAgents
  \/ AssignAgent
  \/ UpdateLoad
  \/ GenerateIn(Messages, Replies)

SpecEscalation == InitDefaultAgents /\ [][NextEscalation]_vars

\* The coordinator under concurrent turns, with sessions closed at any time.
NextTurns ==
  \/ StartTurn
  \/ GetAgent
  \/ GetAgents
  \/ AssignAgent
  \/ UpdateLoad
  \/ Generate
  \/ CloseSession

SpecTurns == Init /\ [][NextTurns]_vars

\* update_conversation_status (database.py lines 161-172) called with the
\* status resolved or closed: the status is written and nothing else is
\* done; the method does not reach the coordinator.
EndConversation ==
  \E c \in TurnConvs, s \in {"resolved", "closed"} :
    /\ db_conversations' = [db_conversations EXCEPT ![c].status = s]
    /\ UNCHANGED <<db_agents, active_chats, sessions, turn>>
    /\ UNCHANGED <<regVars, apiVars>>

\* The coordinator under concurrent turns while conversations end.
NextLifecycle ==
  \/ StartTurn
  \/ GetAgent
  \/ GetAgents
  \/ AssignAgent
  \/ UpdateLoad
  \/ Generate
  \/ CloseSession
  \/ EndConversation

SpecLifecycle == Init /\ [][NextLifecycle]_vars

\* The coordinator with a storage that answers every call in the end.  The
\* collaborator is not so bound: line 127 awaits it with no timeout, so
\* nothing makes Generate happen.
SpecTurnsFair ==
  /\ Init /\ [][NextTurns]_vars
  /\ WF_vars(GetAgent) /\ WF_vars(GetAgents)
  /\ WF_vars(AssignAgent) /\ WF_vars(UpdateLoad)

\* ================================================================ properties
\* The direct-address table of a role (lines 34-38 and 67-71 pick it so).
Table(r) == IF r = "agent" THEN agent_connections ELSE customer_connections

\* The websockets that connect_to_conversation registered for participant p
\* (accept succeeded), disconnected since or not.
Connected(p) ==
  {h \in Channels : /\ ws[h].pc \notin {"new", "refused", "dropped"}
                    /\ ws[h].role = p[1] /\ ws[h].user = p[2]}

\* The largest of a non-empty set of websockets: the one that connected last.
Latest(S) == CHOOSE h \in S : \A g \in S : g <= h

\* How many times h occurs in lst.
Count(h, lst) == Cardinality({i \in 1..Len(lst) : lst[i] = h})

\* The typing set of a conversation, empty when the table has none.
TypingSet(ty, c) == IF c \in DOMAIN ty THEN ty[c] ELSE {}

\* --- C1 ---------------------------------------------------------------
\* C1: at most one chat session exists per key (agent id, session id), also
\* under concurrent generate_response calls: two session objects made for the
\* same key and not closed are one object, a session that is not closed is
\* the one the map holds under its key, and a call that is generating with a
\* session that is not closed holds the map's session for its key.
C1_OneSessionPerKey ==
  /\ \A i, j \in 1..Len(sessions) :
       (sessions[i].key = sessions[j].key /\ ~sessions[i].closed /\ ~sessions[j].closed)
         => i = j
  /\ \A i \in 1..Len(sessions) :
       ~sessions[i].closed =>
         sessions[i].key \in DOMAIN active_chats /\ active_chats[sessions[i].key] = i
  /\ \A t \in Turns :
       (turn[t].pc = "generate" /\ ~sessions[turn[t].chat].closed) =>
         active_chats[ChatKey(turn[t].agent, turn[t].conv)] = turn[t].chat

\* Two calls for the same conversation are generating at once, the second
\* having found and reused the session the first created.
C1_Witness ==
  \E t1, t2 \in Turns :
    /\ t1 # t2
    /\ turn[t1].pc = "generate" /\ turn[t2].pc = "generate"
    /\ turn[t1].conv = turn[t2].conv /\ turn[t1].agent = turn[t2].agent
    /\ turn[t1].chat = turn[t2].chat
    /\ Len(sessions) = 1

\* --- C2 ---------------------------------------------------------------
\* C2, as stated: for a participant whose connects were all on one
\* conversation, the direct entry is the most recently connected websocket
\* among those not disconnected, and is absent only when all of them are
\* disconnected.
C2_FallsBackToLiveChannel ==
  \A p \in Participants :
    LET live == {h \in Connected(p) : ws[h].pc # "closed"}
    IN (\A g, h \in Connected(p) : ws[g].conv = ws[h].conv) =>
         IF live = {} THEN p[2] \notin DOMAIN Table(p[1])
         ELSE p[2] \in DOMAIN Table(p[1]) /\ Table(p[1])[p[2]] = Latest(live)

\* C2, amended: the direct entry of a participant is the websocket of its
\* most recent successful connect for as long as that websocket is not
\* disconnected; once it is disconnected there is no entry, whether or not
\* earlier websockets of the participant are still connected.
C2_LastConnectWins ==
  \A p \in Participants :
    IF Connected(p) # {} /\ ws[Latest(Connected(p))].pc # "closed"
    THEN p[2] \in DOMAIN Table(p[1]) /\ Table(p[1])[p[2]] = Latest(Connected(p))
    ELSE p[2] \notin DOMAIN Table(p[1])

\* A participant connected twice on one conversation; the second websocket
\* has disconnected, the first is still connected, and there is no entry.
C2_Witness ==
  \E h1, h2 \in Channels :
    /\ h1 < h2
    /\ ws[h1].pc = "open" /\ ws[h2].pc = "closed"
    /\ ws[h1].role = ws[h2].role /\ ws[h1].user = ws[h2].user
    /\ ws[h1].conv = ws[h2].conv
    /\ InList(h1, Members(active_connections, ws[h1].conv))
    /\ ws[h1].user \notin DOMAIN Table(ws[h1].role)

\* --- C3 ---------------------------------------------------------------
\* C3: a broadcast during which no other task changed the group attempts
\* each member other than the excluded one exactly once (N-1 attempts when
\* the excluded websocket is one of N members) and returns normally; at its
\* return the websockets whose send failed are out of the group, and every
\* other non-excluded member was delivered to and is still a member.
C3_BroadcastDelivery ==
  \A b \in Broadcasts :
    (bc[b].pc \in {"done", "raised"} /\ ~bh[b].mutated) =>
      LET snap == bh[b].snap
          targets == Elems(snap) \ {bc[b].excl}
          failed == bc[b].failed
          delivered == bh[b].delivered
          group == Members(active_connections, bc[b].conv)
      IN /\ bc[b].pc = "done"
         /\ \A h \in targets : Count(h, delivered) + Count(h, failed) = 1
         /\ Elems(delivered) \cup Elems(failed) = targets
         /\ bc[b].excl \in Elems(snap) =>
              Len(delivered) + Len(failed) = Len(snap) - 1
         /\ \A h \in Elems(failed) : ~InList(h, group)
         /\ \A h \in targets \ Elems(failed) : Count(h, group) = 1
         /\ bc[b].excl \in Elems(snap) => InList(bc[b].excl, group)

\* A broadcast over three members, one excluded, has returned: the send to
\* the first of the other two failed and the one after it was delivered to.
C3_Witness ==
  \E b \in Broadcasts :
    /\ bc[b].pc = "done" /\ ~bh[b].mutated
    /\ Len(bh[b].snap) = 3
    /\ bc[b].excl \in Elems(bh[b].snap)
    /\ Len(bc[b].failed) = 1 /\ Len(bh[b].delivered) = 1
    /\ FirstIndex(bc[b].failed[1], bh[b].snap) < FirstIndex(bh[b].delivered[1], bh[b].snap)

\* --- C4 ---------------------------------------------------------------
\* C4, as stated: when a broadcast returns, every non-excluded websocket that
\* was a member when it started and still is one (websockets do not rejoin)
\* and whose send did not fail was delivered to exactly once, no websocket
\* was delivered to twice, and none was sent to after its disconnect.
C4_ConsistentSnapshot ==
  \A b \in Broadcasts :
    bc[b].pc \in {"done", "raised"} =>
      /\ \A h \in Elems(bh[b].snap) \ ({bc[b].excl} \cup Elems(bc[b].failed)) :
           InList(h, Members(active_connections, bc[b].conv)) =>
             Count(h, bh[b].delivered) = 1
      /\ \A h \in Channels : Count(h, bh[b].delivered) <= 1
      /\ ~bh[b].late

\* --- C5 ---------------------------------------------------------------
\* C5, as stated: broadcast_to_conversation never ends by raising.
C5_BroadcastReturnsNormally ==
  \A b \in Broadcasts : bc[b].pc # "raised"

\* --- C6 ---------------------------------------------------------------
\* C6, as stated: when a broadcast has returned, each websocket it removed
\* for a failed send is in no group, no direct entry points at it, and its
\* participant is in no typing set of the conversation.
C6_FailedChannelUnregistered ==
  \A b \in Broadcasts :
    bc[b].pc = "done" =>
      \A h \in Elems(bc[b].failed) :
        /\ \A c \in DOMAIN active_connections : ~InList(h, active_connections[c])
        /\ \A u \in DOMAIN agent_connections : agent_connections[u] # h
        /\ \A u \in DOMAIN customer_connections : customer_connections[u] # h
        /\ ws[h].user \notin TypingSet(typing_indicators, bc[b].conv)

\* --- C7 ---------------------------------------------------------------
\* C7, as stated: every conversation in the group table has a non-empty group.
C7_NoEmptyGroups ==
  \A c \in DOMAIN active_connections : active_connections[c] # <<>>

\* --- C8 ---------------------------------------------------------------
\* C8: when the endpoint of h1 disconnects while h2, a later websocket of the
\* same participant on the same conversation and its latest, is registered,
\* the participant's direct entry is h2 afterwards and the group loses h1 and
\* nothing else.
C8_StaleDisconnect ==
  [][\A h1, h2 \in Channels :
       (/\ h1 < h2
        /\ ws[h1].pc = "open" /\ ws'[h1].pc = "closed"
        /\ ws[h2].pc \in {"acking", "open", "handling"}
        /\ ws[h2].role = ws[h1].role /\ ws[h2].user = ws[h1].user
        /\ ws[h2].conv = ws[h1].conv
        /\ h2 = Latest(Connected(<<ws[h1].role, ws[h1].user>>)))
       => /\ ws[h1].user \in DOMAIN Table(ws[h1].role)'
          /\ Table(ws[h1].role)'[ws[h1].user] = h2
          /\ InList(h2, Members(active_connections', ws[h1].conv))
          /\ Members(active_connections', ws[h1].conv)
               = ListRemove(Members(active_connections, ws[h1].conv), h1)]_vars

\* The earlier websocket of a participant has disconnected while the later
\* one stays registered: the entry is the later one and the group holds it.
C8_Witness ==
  \E h1, h2 \in Channels :
    /\ h1 < h2
    /\ ws[h1].pc = "closed" /\ ws[h2].pc = "open"
    /\ ws[h2].role = ws[h1].role /\ ws[h2].user = ws[h1].user
    /\ ws[h2].conv = ws[h1].conv
    /\ ws[h2].user \in DOMAIN Table(ws[h2].role)
    /\ Table(ws[h2].role)[ws[h2].user] = h2
    /\ Members(active_connections, ws[h2].conv) = <<h2>>

\* --- C9 ---------------------------------------------------------------
\* Websocket h is registered nowhere for conversation c and user u.
Unregistered(R, c, u, h) ==
  /\ ~InList(h, Members(R.ac, c))
  /\ ~(u \in DOMAIN R.ag /\ R.ag[u] = h)
  /\ ~(u \in DOMAIN R.cu /\ R.cu[u] = h)

\* C9, as stated: a second disconnect changes no table, and a disconnect of
\* a websocket that is not registered changes no table.
C9_DisconnectChangesNothing ==
  \A c \in Convs, u \in Users, h \in Channels :
    LET R1 == DisconnectReg(Reg, c, u, h)
    IN /\ DisconnectReg(R1, c, u, h) = R1
       /\ Unregistered(Reg, c, u, h) => R1 = Reg

\* C9, amended: a second disconnect with the same arguments changes no table;
\* a disconnect of a websocket that is not registered leaves the members of
\* every group and both direct tables as they were, and changes the typing
\* sets only by taking the user out of the conversation's set.
C9_DisconnectIdempotent ==
  \A c \in Convs, u \in Users, h \in Channels :
    LET R1 == DisconnectReg(Reg, c, u, h)
    IN /\ DisconnectReg(R1, c, u, h) = R1
       /\ Unregistered(Reg, c, u, h) =>
            /\ \A d \in Convs : Members(R1.ac, d) = Members(Reg.ac, d)
            /\ R1.ag = Reg.ag
            /\ R1.cu = Reg.cu
            /\ \A d \in Convs :
                 TypingSet(R1.ty, d) = IF d = c THEN TypingSet(Reg.ty, d) \ {u}
                                       ELSE TypingSet(Reg.ty, d)

\* The endpoint of a websocket whose accept failed is about to disconnect
\* it, while its user is typing over another websocket of the conversation:
\* the disconnect of the unregistered websocket changes the typing table.
C9_Witness ==
  \E h \in Channels :
    /\ ws[h].pc = "refused"
    /\ Unregistered(Reg, ws[h].conv, ws[h].user, h)
    /\ ws[h].user \in TypingSet(typing_indicators, ws[h].conv)
    /\ DisconnectReg(Reg, ws[h].conv, ws[h].user, h).ty # typing_indicators

\* --- C10 --------------------------------------------------------------
\* C10, as stated: once connect_to_conversation has returned for an accepted
\* websocket, either the confirmation was sent and the websocket is in its
\* group, or the confirmation could not be sent and the websocket is in no
\* group and no direct entry points at it.
C10_ConnectRegistersAndAcks ==
  \A h \in Channels :
    ws[h].pc = "open" =>
      \/ /\ ws[h].ack = "sent"
         /\ InList(h, Members(active_connections, ws[h].conv))
      \/ /\ ws[h].ack = "failed"
         /\ ~InList(h, Members(active_connections, ws[h].conv))
         /\ ~(ws[h].user \in DOMAIN Table(ws[h].role) /\ Table(ws[h].role)[ws[h].user] = h)

\* --- C13 --------------------------------------------------------------
\* C13, as stated: whenever no call is between writing its assignment and
\* incrementing the load, each agent's current_load is the number of
\* conversations assigned to it (no conversation is ever closed here).
C13_LoadBalanced ==
  (\A t \in Turns : turn[t].pc # "load") =>
    \A a \in Agents :
      db_agents[a].current_load
        = Cardinality({c \in TurnConvs : db_conversations[c].assigned_agent_id = a})

\* --- C15 --------------------------------------------------------------
\* C15, as stated: no two calls are awaiting send_message on one chat
\* session at the same time.
C15_SessionExclusive ==
  \A t1, t2 \in Turns :
    (t1 # t2 /\ turn[t1].pc = "generate" /\ turn[t2].pc = "generate")
      => turn[t1].chat # turn[t2].chat

\* --- C18 --------------------------------------------------------------
\* C18: a call whose send_message raised has returned (nothing propagates)
\* and its response has confidence 0.1, agent_id "system", escalation
\* required and the reason "Technical error in AI system".
C18_DegradedResult ==
  \A t \in Turns :
    turn[t].cause = "generate" =>
      /\ turn[t].pc = "returned"
      /\ AgentResponseOf(t).confidence = FallbackConfidence
      /\ AgentResponseOf(t).agent_id = "system"
      /\ AgentResponseOf(t).requires_human_escalation
      /\ AgentResponseOf(t).escalation_reason = "Technical error in AI system"

\* A call has returned after its send_message raised, its agent resolved
\* and its session made.
C18_Witness ==
  \E t \in Turns :
    /\ turn[t].pc = "returned" /\ turn[t].cause = "generate"
    /\ turn[t].agent \in Agents /\ turn[t].chat # 0

\* --- C19 --------------------------------------------------------------
\* C19, as stated: a call that awaits the collaborator returns in the end,
\* whether or not the collaborator answers.
C19_TurnEventuallyReturns ==
  \A t \in Turns : (turn[t].pc = "generate") ~> (turn[t].pc = "returned")

\* --- C20 --------------------------------------------------------------
\* C20, as stated: a call that found no agent returns a response that differs
\* from the one of a failed generation, with no agent and no session.
C20_NoAgentAvailable ==
  \A t \in Turns :
    (turn[t].pc = "returned" /\ turn[t].cause = "router") =>
      /\ AgentResponseOf(t) # FallbackResponse
      /\ turn[t].agent = NoAgent
      /\ turn[t].chat = 0

\* --- C11 --------------------------------------------------------------
\* bool(v) of a returned value: None counts as false.
Truthy(v) == v = "True"

\* C11, as stated: what send_to_agent returns is true when the id had an
\* entry (a send was attempted) and false when it had none.
C11_SendDirectResult ==
  ds.pc = "returned" => (Truthy(ds.result) <=> ds.target # None)

\* --- C12 --------------------------------------------------------------
\* C12, as stated: send_to_agent never raises; when its send failed, the id's
\* entry no longer points at the websocket sent to, and the entry of a
\* websocket of the agent that connected during the send, and is still
\* connected, is in place.
C12_SendDirectFailure ==
  /\ ds.pc # "raised"
  /\ (ds.pc = "returned" /\ ds.failed) =>
       LET later == {h \in Connected(<<"agent", ds.agent>>) : h > ds.target}
       IN /\ ~(ds.agent \in DOMAIN agent_connections
               /\ agent_connections[ds.agent] = ds.target)
          /\ (later # {} /\ ws[Latest(later)].pc # "closed") =>
               /\ ds.agent \in DOMAIN agent_connections
               /\ agent_connections[ds.agent] = Latest(later)

\* --- C14 --------------------------------------------------------------
\* C14, as stated, for the persisted history: in every conversation each
\* outbound message directly follows the inbound message of the same
\* request, and no message is stored twice.
C14_TurnsSerialized ==
  \A c \in TurnConvs :
    LET m == db_messages[c]
    IN /\ \A i \in 1..Len(m) :
            m[i][2] = "out" => (i > 1 /\ m[i - 1] = Msg(m[i][1], "in"))
       /\ \A i, j \in 1..Len(m) : m[i] = m[j] => i = j

\* --- C16 --------------------------------------------------------------
\* C16: from the moment a request starts its first broadcast, and whenever
\* a frame of it has been delivered to a websocket, its inbound and its
\* outbound message are both in the conversation's stored messages, once
\* each and in this order.
C16_PersistBeforeBroadcast ==
  \A r \in Requests :
    (\/ bc[ReqSlot(r)].pc # "idle"
     \/ bh[ReqSlot(r)].delivered # <<>>
     \/ req[r].pc \in {"bcast_in", "bcast_out", "bcast_esc", "status", "returned"}) =>
      LET m == db_messages[req[r].conv]
      IN /\ Count(Msg(r, "in"), m) = 1
         /\ Count(Msg(r, "out"), m) = 1
         /\ FirstIndex(Msg(r, "in"), m) < FirstIndex(Msg(r, "out"), m)

\* The broadcast of a request's user message has delivered its frame to a
\* websocket of the conversation.
C16_Witness ==
  \E r \in Requests :
    /\ req[r].pc = "bcast_in"
    /\ bh[ReqSlot(r)].delivered # <<>>

\* --- C17 --------------------------------------------------------------
\* C17, as stated: while a new_message broadcast is sending, for a request
\* or for a message frame received on a websocket, the message it carries
\* is in the conversation's stored messages.
C17_BroadcastOnlyStored ==
  /\ \A r \in Requests :
       (bc[ReqSlot(r)].pc = "sending" /\ req[r].pc \in {"bcast_in", "bcast_out"}) =>
         InList(Msg(r, IF req[r].pc = "bcast_in" THEN "in" ELSE "out"),
                db_messages[req[r].conv])
  /\ \A h \in Channels :
       (ws[h].pc = "relaying" /\ bc[h].pc = "sending") =>
         InList(Msg(h, "frame"), db_messages[ws[h].conv])

\* --- C21 --------------------------------------------------------------
\* The agents of the directory the router may select: active and below
\* their capacity.
Eligible(dir) ==
  {a \in DOMAIN dir : /\ dir[a].status = "active"
                      /\ dir[a].current_load < dir[a].max_concurrent_conversations}

\* The place of agent a in the storage's order.
Place(a) == CHOOSE i \in 1..Len(DirectoryOrder) : DirectoryOrder[i] = a

\* C21: on every directory, the agent the router selected is active, is
\* below its capacity, has the least load of the eligible agents and is the
\* first of those of that load in directory order; some agent is selected
\* whenever one is eligible.
C21_RouterSelection ==
  \A t \in Turns :
    /\ turn[t].pc = "assign" =>
         /\ turn[t].agent \in Eligible(db_agents)
         /\ \A b \in Eligible(db_agents) :
              /\ db_agents[turn[t].agent].current_load <= db_agents[b].current_load
              /\ db_agents[b].current_load = db_agents[turn[t].agent].current_load
                   => Place(turn[t].agent) <= Place(b)
    /\ (turn[t].pc = "returned" /\ turn[t].cause = "router") =>
         Eligible(db_agents) = {}

\* The directory has loads 3, 1, 1, 5 with the default capacity each, all
\* active, and the router selected the first agent of load 1.
C21_Witness ==
  /\ \A a \in DOMAIN db_agents :
       /\ db_agents[a].status = "active"
       /\ db_agents[a].max_concurrent_conversations = DefaultCapacity
  /\ db_agents["a1"].current_load = 3 /\ db_agents["a2"].current_load = 1
  /\ db_agents["a3"].current_load = 1 /\ db_agents["a4"].current_load = 5
  /\ turn[1].pc = "assign" /\ turn[1].agent = "a2"

\* --- C22 --------------------------------------------------------------
\* C22, as stated: what the router returns when the directory has no active
\* agent says NoAgentsAvailable, and what it returns when every active agent
\* is at its capacity says AllAgentsSaturated.
C22_RouterErrorKinds ==
  \A t \in Turns :
    (turn[t].pc = "returned" /\ turn[t].cause = "router") =>
      /\ GetActiveAgents(db_agents) = <<>> => BestAgent(db_agents) = "NoAgentsAvailable"
      /\ (/\ GetActiveAgents(db_agents) # <<>>
          /\ \A a \in Elems(GetActiveAgents(db_agents)) :
               db_agents[a].current_load = db_agents[a].max_concurrent_conversations)
           => BestAgent(db_agents) = "AllAgentsSaturated"

\* --- C25 --------------------------------------------------------------
\* C25: the session a call obtains when it goes on to generate is never one
\* that was closed; when every session made for its key was closed, it is a
\* new object, made in that step, and the map holds it under the key.
C25_FreshAfterClose ==
  [][\A t \in Turns :
       (turn[t].pc # "generate" /\ turn'[t].pc = "generate") =>
         LET key == ChatKey(turn'[t].agent, turn'[t].conv)
             got == turn'[t].chat
         IN /\ got \in 1..Len(sessions')
            /\ sessions'[got].key = key
            /\ ~sessions'[got].closed
            /\ active_chats'[key] = got
            /\ (\A i \in 1..Len(sessions) : sessions[i].key = key => sessions[i].closed)
                 => got = Len(sessions) + 1]_vars

\* A call is generating with a session made for a key after an earlier
\* session of that key was closed.
C25_Witness ==
  \E t \in Turns, i \in 1..Len(sessions) :
    /\ turn[t].pc = "generate"
    /\ sessions[i].key = ChatKey(turn[t].agent, turn[t].conv)
    /\ sessions[i].closed
    /\ turn[t].chat > i
    /\ ~sessions[turn[t].chat].closed

\* --- C26 --------------------------------------------------------------
\* C26: on the map as it is, closing a key that has no session gives the
\* same map, closing a key twice gives what closing it once gives, and
\* closing a key leaves the session of every other key in place.
C26_CloseIdempotent ==
  \A a \in Agents, c \in TurnConvs :
    LET key == ChatKey(a, c)
        m1 == CleanupChat(active_chats, key)
    IN /\ key \notin DOMAIN active_chats => m1 = active_chats
       /\ key \notin DOMAIN m1
       /\ CleanupChat(m1, key) = m1
       /\ \A o \in DOMAIN active_chats \ {key} :
            o \in DOMAIN m1 /\ m1[o] = active_chats[o]

\* A session was closed while the session of another key stays in the map.
C26_Witness ==
  \E i \in 1..Len(sessions) :
    /\ sessions[i].closed
    /\ sessions[i].key \notin DOMAIN active_chats
    /\ \E o \in DOMAIN active_chats : o # sessions[i].key

\* --- C24 --------------------------------------------------------------
\* C24, as stated: a conversation whose status is resolved or closed has no
\* session in the map under the key of its assigned agent.
C24_ClosedOnEnd ==
  \A c \in TurnConvs :
    (/\ db_conversations[c].status \in {"resolved", "closed"}
     /\ db_conversations[c].assigned_agent_id # NoAgent)
      => ChatKey(db_conversations[c].assigned_agent_id, c) \notin DOMAIN active_chats

\* --- C23 --------------------------------------------------------------
\* C23, as stated: when the call of a request has assigned an agent to a
\* conversation that had none and has gone on to its response, the
\* assignment is stored, the agent's load is counted, and an agent_assigned
\* frame was broadcast to the conversation, which has a websocket connected.
C23_AssignmentNotified ==
  \A r \in Requests :
    (/\ req[r].pc = "generate"
     /\ turn[r].pc \in {"generate", "returned"}
     /\ turn[r].assigned = NoAgent /\ turn[r].agent \in Agents
     /\ Members(active_connections, req[r].conv) # <<>>)
      => /\ db_conversations[req[r].conv].assigned_agent_id = turn[r].agent
         /\ db_agents[turn[r].agent].current_load >= 1
         /\ InList("agent_assigned", req[r].sent)

\* --- C27 --------------------------------------------------------------
\* s is the beginning of t.
IsPrefix(s, t) == Len(s) <= Len(t) /\ SubSeq(t, 1, Len(s)) = s

\* The frames of a request that escalates, in the order of server.py lines
\* 316-327.
EscalatedFrames == <<"new_message", "new_message", "escalation">>

\* C27, as stated: a request broadcasts the two new_message frames and then,
\* only when its response requires escalation, the escalation frame; a
\* request that is over after its response was stored, the storage having
\* taken every write, sent the escalation frame and left the conversation
\* escalated exactly when the response required escalation.
C27_EscalationIffRequired ==
  \A r \in Requests :
    /\ IsPrefix(req[r].sent, EscalatedFrames)
    /\ InList("escalation", req[r].sent) => req[r].esc
    /\ req[r].pc \in {"returned", "aborted"} =>
         /\ req[r].esc <=> InList("escalation", req[r].sent)
         /\ req[r].esc => db_conversations[req[r].conv].status = "escalated"

\* --- C28 --------------------------------------------------------------
\* The keywords the claim lists.
ClaimKeywords ==
  {<<"r", "e", "f", "u", "n", "d">>,
   <<"c", "a", "n", "c", "e", "l">>,
   <<"b", "i", "l", "l", "i", "n", "g", " ", "e", "r", "r", "o", "r">>,
   <<"c", "o", "m", "p", "l", "a", "i", "n", "t">>,
   <<"l", "e", "g", "a", "l">>,
   <<"s", "u", "p", "e", "r", "v", "i", "s", "o", "r">>,
   <<"m", "a", "n", "a", "g", "e", "r">>,
   <<"e", "s", "c", "a", "l", "a", "t", "e">>,
   <<"f", "r", "u", "s", "t", "r", "a", "t", "e", "d">>,
   <<"a", "n", "g", "r", "y">>}

\* Characters x and y are the same letter, whatever their cases.
SameLetter(x, y) ==
  \/ x = y
  \/ \E i \in 1..Len(UpperCase) : {x, y} = {UpperCase[i], LowerCase[i]}

\* Text s holds a listed keyword as a substring, letter cases aside.
HoldsKeyword(s) ==
  \E k \in ClaimKeywords :
    \E i \in 0..(Len(s) - Len(k)) :
      \A j \in 1..Len(k) : SameLetter(s[i + j], k[j])

\* C28: the response of a call whose generation succeeded requires
\* escalation exactly when its message holds a listed keyword, letter cases
\* aside, whatever the generated text; the reason is the fixed string when
\* it does and None when it does not.
C28_EscalationByKeyword ==
  \A t \in Turns :
    (turn[t].pc = "returned" /\ turn[t].result = "ok") =>
      /\ AgentResponseOf(t).requires_human_escalation <=> HoldsKeyword(turn[t].msg)
      /\ AgentResponseOf(t).escalation_reason
           = IF HoldsKeyword(turn[t].msg)
             THEN "Complex issue requiring human expertise" ELSE "None"

\* The message "I want a refund now" got a response that requires
\* escalation, the generated text holding no keyword.
C28_Witness ==
  \E t \in Turns :
    /\ turn[t].pc = "returned" /\ turn[t].result = "ok"
    /\ turn[t].msg = RefundMessage /\ turn[t].reply = PlainReply
    /\ AgentResponseOf(t).requires_human_escalation

\* --- C29 --------------------------------------------------------------
\* C29: while a call awaits the collaborator, its prompt holds the last 10
\* messages of the conversation's history (all of them when there are fewer),
\* in the order of the history and each tagged Customer or Agent after its
\* sender, and after them the message of the call.
C29_ContextWindow ==
  \A t \in Turns :
    turn[t].pc = "generate" =>
      LET h == db_messages[turn[t].conv]
          n == Len(h)
          k == IF n < 10 THEN n ELSE 10
          ctx == turn[t].context
      IN /\ Len(ctx) = k + 1
         /\ \A i \in 1..k :
              ctx[i] = <<IF h[n - k + i][2] = "in" THEN "Customer" ELSE "Agent",
                         h[n - k + i]>>
         /\ ctx[k + 1] = <<"Customer Message", t>>

\* A call awaits the collaborator with a prompt built over a history of
\* more than 10 messages of both senders: the oldest is not in it.
C29_Witness ==
  \E t \in Turns :
    /\ turn[t].pc = "generate"
    /\ Len(db_messages[turn[t].conv]) > 10
    /\ Len(turn[t].context) = 11
    /\ turn[t].context[1][2] = db_messages[turn[t].conv][2]
    /\ \E i, j \in 1..10 : turn[t].context[i][1] = "Customer"
                            /\ turn[t].context[j][1] = "Agent"

\* --- C30 --------------------------------------------------------------
\* C30: a step in which an open websocket's task logs a frame of an unknown
\* type starts no broadcast and sends nothing, changes no connection table
\* and no typing set, and leaves the websocket open and as registered as it
\* was, every other websocket untouched.
C30_UnknownFrameIgnored ==
  [][\A h \in Channels :
       (~ws[h].warned /\ ws'[h].warned /\ ws[h].pc = "open") =>
         /\ bc' = bc
         /\ bh' = bh
         /\ active_connections' = active_connections
         /\ agent_connections' = agent_connections
         /\ customer_connections' = customer_connections
         /\ typing_indicators' = typing_indicators
         /\ ws'[h].pc = "open"
         /\ InList(h, Members(active_connections, ws[h].conv))
              => InList(h, Members(active_connections', ws'[h].conv))
         /\ \A g \in Channels \ {h} : ws'[g] = ws[g]]_vars

\* A registered websocket whose task has logged an unknown frame is
\* handling a later typing frame: its typing indicator is set and its
\* broadcast has delivered to another websocket of the conversation.
C30_Witness ==
  \E h \in Channels :
    /\ ws[h].warned
    /\ ws[h].pc = "handling"
    /\ InList(h, Members(active_connections, ws[h].conv))
    /\ ws[h].conv \in DOMAIN typing_indicators
    /\ ws[h].user \in typing_indicators[ws[h].conv]
    /\ bh[h].delivered # <<>>

\* --- C31 --------------------------------------------------------------
\* C31: a message frame received on a websocket of either role, agent or
\* customer, is relayed: none ends with nothing broadcast to the
\* conversation's group.
C31_RelayBothRoles ==
  \A h \in Channels :
    (ws[h].pc # "new" /\ ws[h].role \in Roles) => ~ws[h].lost

\* --- C32 --------------------------------------------------------------
\* C32: in the step in which a websocket's typing frame is taken, the id of
\* its user is added to the conversation's typing set (typing_start) or
\* removed from it (typing_stop), a broadcast to the conversation's group
\* is started, also when the set did not change, and the set the payload
\* carries is the stored set as the update left it.
C32_TypingUpdateThenBroadcast ==
  [][\A h \in Channels :
       (ws[h].pc = "open" /\ ws'[h].pc = "handling") =>
         LET c == ws[h].conv
             u == ws[h].user
             old == TypingSet(typing_indicators, c)
             new == TypingSet(typing_indicators', c)
             d == bc'[h].data
         IN /\ Len(d) = 2
            /\ new = IF d[1] THEN old \cup {u} ELSE old \ {u}
            /\ c \in DOMAIN typing_indicators'
            /\ d[2] = new
            /\ bc[h].pc = "idle"
            /\ bc'[h].pc \in {"sending", "done"}
            /\ bc'[h].conv = c
            /\ bc'[h].excl = None
            /\ bh'[h].snap = Members(active_connections, c)
            /\ \A o \in Convs \ {c} :
                 TypingSet(typing_indicators', o) = TypingSet(typing_indicators, o)]_vars

\* Two typing_start broadcasts of one user are in flight at once over two
\* of its websockets, both carrying the set as stored.
C32_Witness ==
  \E h, g \in Channels :
    /\ h # g
    /\ ws[h].user = ws[g].user
    /\ ws[h].conv = ws[g].conv
    /\ bc[h].pc = "sending" /\ bc[g].pc = "sending"
    /\ bc[h].data = <<TRUE, typing_indicators[ws[h].conv]>>
    /\ bc[g].data = bc[h].data

\* --- C33 --------------------------------------------------------------
\* C33: a request that has started its broadcasts is not ended by a
\* websocket that disconnects or fails meanwhile: none ends in what a
\* broadcast raised, and one that returned its response has sent every frame
\* of lines 316-327, the escalation notice included when the response
\* requires escalation, and has then left the conversation escalated.
C33_DisconnectKeepsTurn ==
  \A r \in Requests :
    /\ req[r].pc # "aborted"
    /\ req[r].pc = "returned" =>
         /\ req[r].sent = IF req[r].esc THEN EscalatedFrames
                          ELSE SubSeq(EscalatedFrames, 1, 2)
         /\ req[r].esc => db_conversations[req[r].conv].status = "escalated"

\* --- C34 --------------------------------------------------------------
\* C34: a typing set exists only for a conversation that has a group, and
\* every id in it is the user of a websocket that is in that group.
C34_TypingOnlyConnected ==
  \A c \in DOMAIN typing_indicators :
    /\ c \in DOMAIN active_connections
    /\ \A u \in typing_indicators[c] :
         \E h \in Elems(active_connections[c]) : ws[h].user = u /\ ws[h].conv = c

\* --- C35 --------------------------------------------------------------
\* C35: while the calls made so far are all on different conversations,
\* every agent's current_load is at least 0 and at most its
\* max_concurrent_conversations.
C35_LoadWithinCapacity ==
  (\A t1, t2 \in Turns :
     (t1 # t2 /\ turn[t1].pc # "idle" /\ turn[t2].pc # "idle")
       => turn[t1].conv # turn[t2].conv)
  => \A a \in Agents :
       /\ 0 <= db_agents[a].current_load
       /\ db_agents[a].current_load <= db_agents[a].max_concurrent_conversations

\* --- C36 --------------------------------------------------------------
\* C36: no step gives a conversation whose assigned agent is in the
\* directory another assigned agent.
C36_AssignmentStable ==
  [][\A c \in TurnConvs :
       db_conversations[c].assigned_agent_id \in DOMAIN db_agents =>
         db_conversations'[c].assigned_agent_id
           = db_conversations[c].assigned_agent_id]_vars

\* --- C37 --------------------------------------------------------------
\* C37: where a single call is made on a conversation that has no agent,
\* with every load 0 and no chat session stored, a call that has returned
\* the fallback response has left all of it so: the conversation has no
\* agent, every load is 0 and the session map is empty.
C37_DegradedChangesNothing ==
  \A t \in Turns :
    (turn[t].pc = "returned" /\ AgentResponseOf(t).agent_id = "system") =>
      /\ db_conversations[turn[t].conv].assigned_agent_id = NoAgent
      /\ \A a \in Agents : db_agents[a].current_load = 0
      /\ active_chats = <<>>

\* --- C38 --------------------------------------------------------------
\* C38: no step changes the status or the assigned agent of a conversation
\* that is resolved or closed, stores a chat session for it, or increments
\* a load in a call made for it.
C38_EndedIsFinal ==
  [][\A c \in TurnConvs :
       db_conversations[c].status \in {"resolved", "closed"} =>
         /\ db_conversations'[c].status = db_conversations[c].status
         /\ db_conversations'[c].assigned_agent_id
              = db_conversations[c].assigned_agent_id
         /\ \A k \in DOMAIN active_chats' \ DOMAIN active_chats : k[2] # c
         /\ \A t \in Turns :
              (turn[t].conv = c /\ turn[t].pc = "load") => db_agents' = db_agents]_vars

\* --- C39 --------------------------------------------------------------
\* C39: the first frame delivered on a websocket is its confirmation.  The
\* confirmation's send is called in the step that registers the websocket
\* (lines 32-43, no await in between), so every broadcast's send to it is
\* called later and its frame goes out later; the confirmation is then the
\* first frame delivered unless it was not delivered at all: no broadcast
\* has delivered a frame to a websocket whose confirmation failed.
C39_AckFirst ==
  \A b \in Broadcasts, h \in Channels :
    InList(h, bh[b].delivered) => ws[h].ack # "failed"

====
